---- MODULE Spec2Model ----
(***************************************************************************)
(* Model of spyrograph/_cycloid.py: the _Cycloid constructor and the class *)
(* methods create_range, n_cusps and animate.                              *)
(*                                                                         *)
(* Numbers are exact rationals <<num, den>> (den > 0, lowest terms), so    *)
(* that Python's true division R / n is a division and not an integer      *)
(* quotient.  An optional argument is <<>> for None and <<v>> for v.       *)
(* The base class _Trochoid (constructor, _set_int_to_list, trace) lives   *)
(* in spyrograph/_trochoid.py; it is modelled from the design document,    *)
(* sections 4.1, 4.3, 4.5 and 6.                                           *)
(***************************************************************************)
EXTENDS Integers, Sequences, FiniteSets, TLC

\* ---------------------------------------------------------------- bounds
MaxLen == 3          \* longest R / r sequence handed to create_range
MaxCuspR == 4        \* n_cusps is called with R in 0..MaxCuspR
MaxN == 3            \* n_cusps is called with n in -1..MaxN
MaxHandle == 2       \* drawing-surface handles are 1..MaxHandle

\* ------------------------------------------------------------- rationals
Abs(x) == IF x < 0 THEN -x ELSE x

RECURSIVE Gcd(_, _)
Gcd(a, b) == IF b = 0 THEN a ELSE Gcd(b, a % b)

\* lowest terms, positive denominator (den # 0)
Norm(num, den) ==
    LET g == Gcd(Abs(num), Abs(den))
        s == IF den < 0 THEN -1 ELSE 1
    IN  <<(s * num) \div g, (s * den) \div g>>

Num(k) == <<k, 1>>
IsZero(x) == x[1] = 0
RatAdd(x, y) == Norm(x[1] * y[2] + y[1] * x[2], x[2] * y[2])
RatLess(x, y) == x[1] * y[2] < y[1] * x[2]
RatMulInt(x, k) == Norm(x[1] * k, x[2])

None == <<>>
Some(v) == <<v>>
IsNone(o) == o = <<>>

\* ------------------------------------------------- values of the inputs
\* radii handed to the constructor, create_range and animate (the code only
\* passes them on): two fixed-circle radii; the degenerate rolling radius
\* and two others
RVals == {Num(1), Num(2)}
Vals == {Num(0), Num(1), Num(2)}
SeqsUpTo(S, n) == UNION {[1..k -> S] : k \in 0..n}
Handles == 1..MaxHandle
\* origin: the default (0, 0) and one other
DefaultOrigin == <<0, 0>>
Origins == {DefaultOrigin, <<1, -1>>}
ThetaList == <<Num(0), Num(1)>>
\* (thetas, theta_start, theta_stop, theta_step): explicit list, full
\* range, nothing, list plus range
ThetaSpecs ==
    { <<Some(ThetaList), None, None, None>>,
      <<None, Some(Num(1)), Some(Num(3)), Some(Num(1))>>,
      <<None, None, None, None>>,
      <<Some(ThetaList), Some(Num(1)), Some(Num(3)), Some(Num(1))>> }
\* defaults of animate's styling parameters (signature of animate)
screen_size == <<1000, 1000>>
screen_color == "white"
FramePauses == {1, 2}

\* a scalar argument and a sequence argument of create_range / animate
Scalar(v) == [seq |-> FALSE, val |-> v, vals |-> <<>>]
List(s) == [seq |-> TRUE, val |-> Num(0), vals |-> s]
RangeArgs(S) == {Scalar(v) : v \in S} \cup {List(s) : s \in SeqsUpTo(S, MaxLen)}

\* ------------------------- _Trochoid (modelled from the design document)
RECURSIVE Arange(_, _, _)
\* start, start+step, ... while strictly below stop; empty for step <= 0
Arange(start, stop, step) ==
    IF RatLess(Num(0), step) /\ RatLess(start, stop)
    THEN <<start>> \o Arange(RatAdd(start, step), stop, step)
    ELSE <<>>

\* section 4.1: the resolved theta domain, or a ConfigurationError
SetThetaValues(thetas, theta_start, theta_stop, theta_step) ==
    IF ~IsNone(thetas)
    THEN IF IsNone(theta_start) /\ IsNone(theta_stop) /\ IsNone(theta_step)
         THEN [ok |-> TRUE, v |-> thetas[1]]
         ELSE [ok |-> FALSE, v |-> <<>>]
    ELSE IF ~IsNone(theta_start) /\ ~IsNone(theta_stop) /\ ~IsNone(theta_step)
         THEN [ok |-> TRUE, v |-> Arange(theta_start[1], theta_stop[1], theta_step[1])]
         ELSE [ok |-> FALSE, v |-> <<>>]

NoModel == [R |-> Num(0), r |-> Num(0), d |-> Num(0), thetas |-> <<>>, origin |-> <<0, 0>>]

\* section 4.3: build(R, r, d, theta_spec, origin)
TrochoidInit(R, r, d, thetas, theta_start, theta_stop, theta_step, origin) ==
    LET th == SetThetaValues(thetas, theta_start, theta_stop, theta_step) IN
    IF ~th.ok THEN [ok |-> FALSE, err |-> "ConfigurationError", model |-> NoModel]
    ELSE IF IsZero(r)
         THEN [ok |-> FALSE, err |-> "DegenerateParameterError", model |-> NoModel]
         ELSE [ok |-> TRUE, err |-> "none",
               model |-> [R |-> R, r |-> r, d |-> d, thetas |-> th.v, origin |-> origin]]

\* section 4.5: a scalar becomes a one-element sequence
SetIntToList(a) == IF a.seq THEN a.vals ELSE <<a.val>>

\* --------------------------------------------------------------- _Cycloid
CycloidInitSwapped(R, r, thetas, theta_start, theta_stop, theta_step, origin) ==
    TrochoidInit(R, r, R, thetas, theta_start, theta_stop, theta_step, origin)

\* __init__: super().__init__(R, r, r, thetas, ...), d is r
CycloidInit(R, r, thetas, theta_start, theta_stop, theta_step, origin) ==
    TrochoidInit(R, r, r, thetas, theta_start, theta_stop, theta_step, origin)

\* line 238: r = R / n, Python true division; n == 0 raises ZeroDivisionError
TrueDivFloor(R, n) ==
    IF n = 0 THEN [ok |-> FALSE, v |-> Num(0)]
    ELSE IF n > 0 THEN [ok |-> TRUE, v |-> Num(R[1] \div (R[2] * n))]
         ELSE [ok |-> TRUE, v |-> Norm(R[1], R[2] * n)]

TrueDivGuarded(R, n) ==
    IF n = 0 THEN [ok |-> TRUE, v |-> Num(0)]
    ELSE [ok |-> TRUE, v |-> Norm(R[1], R[2] * n)]

TrueDiv(R, n) ==
    IF n = 0 THEN [ok |-> FALSE, v |-> Num(0)]
    ELSE [ok |-> TRUE, v |-> Norm(R[1], R[2] * n)]

\* lines 175-179: how many of R, r are iterables; more than one is an error
MoreThanOneVariedNever(R, r) ==
    (IF R.seq THEN 1 ELSE 0) + (IF r.seq THEN 1 ELSE 0) > 2

MoreThanOneVaried(R, r) ==
    (IF R.seq THEN 1 ELSE 0) + (IF r.seq THEN 1 ELSE 0) > 1

\* lines 5-10: the names the module binds at import time
ModuleNames == {"Number", "List", "Tuple", "Union", "collections", "time", "_Trochoid"}

\* line 125: screen is not None (0 stands for None)
NeedsResetAlways(scr) == TRUE

NeedsReset(scr) == scr # 0

\* ------------------------------------------------------------------ state
VARIABLES
    pc,         \* position of the running call: idle, cr_loop, an_loop, an_trace, an_sleep, an_exit, done
    op,         \* the entry point that was called
    args,       \* its arguments
    R_arr,      \* create_range: normalised R
    r_arr,      \* create_range: normalised r
    i,          \* create_range: position of the outer loop
    j,          \* create_range: position of the inner loop
    shapes,     \* create_range: the list under construction
    shapes_arr, \* animate: the list create_range returned
    k,          \* animate: position of the loop over shapes_arr
    screen,     \* animate: the local variable screen (0 is None)
    result,     \* what the call returned
    err,        \* the exception the call raised, or none
    errAt,      \* the function whose code raised it
    ctorCalls,  \* number of constructor calls made so far
    log         \* calls made into the rendering collaborator and time.sleep

vars == <<pc, op, args, R_arr, r_arr, i, j, shapes, shapes_arr, k, screen,
          result, err, errAt, ctorCalls, log>>

NoArgs == [R |-> Scalar(Num(0)), r |-> Scalar(Num(0)), n |-> 0,
           theta |-> <<None, None, None, None>>, origin |-> <<0, 0>>,
           screen |-> 0, exit_on_click |-> FALSE, frame_pause |-> 0]

Unset == [kind |-> "unset", model |-> NoModel, list |-> <<>>]
RetNone == [kind |-> "None", model |-> NoModel, list |-> <<>>]
RetModel(m) == [kind |-> "model", model |-> m, list |-> <<>>]
RetList(l) == [kind |-> "list", model |-> NoModel, list |-> l]

\* one call into the rendering collaborator, or one time.sleep
Ev(name, h, hout, shape, size, color, pause) ==
    [ev |-> name, h |-> h, hout |-> hout, shape |-> shape,
     size |-> size, color |-> color, pause |-> pause]

Init ==
    /\ pc = "idle"
    /\ op = "none"
    /\ args = NoArgs
    /\ R_arr = <<>>
    /\ r_arr = <<>>
    /\ i = 1
    /\ j = 1
    /\ shapes = <<>>
    /\ shapes_arr = <<>>
    /\ k = 1
    /\ screen = 0
    /\ result = Unset
    /\ err = "none"
    /\ errAt = "none"
    /\ ctorCalls = 0
    /\ log = <<>>

\* ------------------------------------------------------------ constructor
\* _Cycloid(R, r, thetas, theta_start, theta_stop, theta_step, origin)
CallInit ==
    /\ pc = "idle"
    /\ \E R \in RVals, r \in Vals, th \in ThetaSpecs, o \in Origins :
           LET c == CycloidInit(R, r, th[1], th[2], th[3], th[4], o) IN
           /\ op' = "init"
           /\ args' = [NoArgs EXCEPT !.R = Scalar(R), !.r = Scalar(r), !.theta = th, !.origin = o]
           /\ ctorCalls' = 1
           /\ result' = IF c.ok THEN RetModel(c.model) ELSE Unset
           /\ err' = c.err
           /\ errAt' = IF c.ok THEN "none" ELSE "__init__"
           /\ pc' = "done"
           /\ UNCHANGED <<R_arr, r_arr, i, j, shapes, shapes_arr, k, screen, log>>

\* ---------------------------------------------------------------- n_cusps
\* lines 236-244: return cls(R=R, r=R/n, thetas=..., origin=origin)
CallNCusps ==
    /\ pc = "idle"
    /\ \E R \in 0..MaxCuspR, n \in -1..MaxN, th \in ThetaSpecs, o \in Origins :
           LET q == TrueDiv(Num(R), n)
               c == CycloidInit(Num(R), q.v, th[1], th[2], th[3], th[4], o)
           IN
           /\ op' = "n_cusps"
           /\ args' = [NoArgs EXCEPT !.R = Scalar(Num(R)), !.n = n, !.theta = th, !.origin = o]
           /\ ctorCalls' = IF q.ok THEN 1 ELSE 0
           /\ result' = IF q.ok /\ c.ok THEN RetModel(c.model) ELSE Unset
           /\ err' = IF ~q.ok THEN "ZeroDivisionError" ELSE c.err
           /\ errAt' = IF ~q.ok THEN "n_cusps" ELSE IF c.ok THEN "none" ELSE "__init__"
           /\ pc' = "done"
           /\ UNCHANGED <<R_arr, r_arr, i, j, shapes, shapes_arr, k, screen, log>>

\* ----------------------------------------------------------- create_range
\* lines 175-186: the check on the varied inputs, the normalisation and the
\* empty list; shared by a direct call and by animate's call at line 120
CreateRangeEnter(R, r) ==
    IF MoreThanOneVaried(R, r)
    THEN /\ err' = "ValueError"
         /\ errAt' = "create_range"
         /\ pc' = "done"
         /\ UNCHANGED <<R_arr, r_arr>>
    ELSE /\ R_arr' = SetIntToList(R)
         /\ r_arr' = SetIntToList(r)
         /\ pc' = "cr_loop"
         /\ UNCHANGED <<err, errAt>>

CallCreateRange ==
    /\ pc = "idle"
    /\ \E R \in RangeArgs(RVals), r \in RangeArgs(Vals), th \in ThetaSpecs, o \in Origins :
           /\ op' = "create_range"
           /\ args' = [NoArgs EXCEPT !.R = R, !.r = r, !.theta = th, !.origin = o]
           /\ CreateRangeEnter(R, r)
           /\ UNCHANGED <<i, j, shapes, shapes_arr, k, screen, result, ctorCalls, log>>

\* lines 187-192: one pass of the inner loop body, shapes.append(cls(R, r, ...))
CreateRangeStepSkipFailed ==
    /\ pc = "cr_loop"
    /\ i <= Len(R_arr)
    /\ Len(r_arr) >= 1
    /\ LET c == CycloidInit(R_arr[i], r_arr[j], args.theta[1], args.theta[2],
                            args.theta[3], args.theta[4], args.origin)
       IN
       /\ ctorCalls' = ctorCalls + 1
       /\ shapes' = IF c.ok THEN Append(shapes, c.model) ELSE shapes
       /\ i' = IF j < Len(r_arr) THEN i ELSE i + 1
       /\ j' = IF j < Len(r_arr) THEN j + 1 ELSE 1
       /\ UNCHANGED <<pc, err, errAt>>
    /\ UNCHANGED <<op, args, R_arr, r_arr, shapes_arr, k, screen, result, log>>

CreateRangeStepReversed ==
    /\ pc = "cr_loop"
    /\ i <= Len(R_arr)
    /\ Len(r_arr) >= 1
    /\ LET c == CycloidInit(R_arr[Len(R_arr) + 1 - i], r_arr[Len(r_arr) + 1 - j],
                            args.theta[1], args.theta[2],
                            args.theta[3], args.theta[4], args.origin)
       IN
       /\ ctorCalls' = ctorCalls + 1
       /\ IF c.ok
          THEN /\ shapes' = Append(shapes, c.model)
               /\ i' = IF j < Len(r_arr) THEN i ELSE i + 1
               /\ j' = IF j < Len(r_arr) THEN j + 1 ELSE 1
               /\ UNCHANGED <<pc, err, errAt>>
          ELSE /\ err' = c.err
               /\ errAt' = "__init__"
               /\ pc' = "done"
               /\ UNCHANGED <<shapes, i, j>>
    /\ UNCHANGED <<op, args, R_arr, r_arr, shapes_arr, k, screen, result, log>>

CreateRangeStep ==
    /\ pc = "cr_loop"
    /\ i <= Len(R_arr)
    /\ Len(r_arr) >= 1
    /\ LET c == CycloidInit(R_arr[i], r_arr[j], args.theta[1], args.theta[2],
                            args.theta[3], args.theta[4], args.origin)
       IN
       /\ ctorCalls' = ctorCalls + 1
       /\ IF c.ok
          THEN /\ shapes' = Append(shapes, c.model)
               /\ i' = IF j < Len(r_arr) THEN i ELSE i + 1
               /\ j' = IF j < Len(r_arr) THEN j + 1 ELSE 1
               /\ UNCHANGED <<pc, err, errAt>>
          ELSE /\ err' = c.err
               /\ errAt' = "__init__"
               /\ pc' = "done"
               /\ UNCHANGED <<shapes, i, j>>
    /\ UNCHANGED <<op, args, R_arr, r_arr, shapes_arr, k, screen, result, log>>

\* line 193: return shapes, to the caller or into animate's shapes_arr
CreateRangeReturn ==
    /\ pc = "cr_loop"
    /\ (i > Len(R_arr) \/ Len(r_arr) = 0)
    /\ IF op = "animate"
       THEN /\ shapes_arr' = shapes
            /\ pc' = "an_loop"
            /\ UNCHANGED result
       ELSE /\ result' = RetList(shapes)
            /\ pc' = "done"
            /\ UNCHANGED shapes_arr
    /\ UNCHANGED <<op, args, R_arr, r_arr, i, j, shapes, k, screen, err, errAt, ctorCalls, log>>

\* ---------------------------------------------------------------- animate
\* line 120: shapes_arr = cls.create_range(R, r, thetas, ..., origin);
\* animate is called with the default origin and the default styling
CallAnimate ==
    /\ pc = "idle"
    /\ \E R \in RangeArgs(RVals), r \in RangeArgs(Vals), th \in ThetaSpecs, o \in {DefaultOrigin},
          scr \in {0} \cup Handles, x \in BOOLEAN, fp \in FramePauses :
           /\ op' = "animate"
           /\ args' = [NoArgs EXCEPT !.R = R, !.r = r, !.theta = th, !.origin = o,
                                     !.screen = scr, !.exit_on_click = x, !.frame_pause = fp]
           /\ screen' = scr
           /\ CreateRangeEnter(R, r)
           /\ UNCHANGED <<i, j, shapes, shapes_arr, k, result, ctorCalls, log>>

\* lines 124-128: the loop head and the reset of a present screen
AnimateLoopHead ==
    /\ pc = "an_loop"
    /\ IF k > Len(shapes_arr)
       THEN /\ pc' = "an_exit"
            /\ UNCHANGED log
       ELSE /\ pc' = "an_trace"
            /\ log' = IF NeedsReset(screen)
                      THEN log \o << Ev("clear", screen, 0, NoModel, <<>>, "", 0),
                                     Ev("setup", screen, 0, NoModel, screen_size, "", 0),
                                     Ev("bgcolor", screen, 0, NoModel, <<>>, screen_color, 0) >>
                      ELSE log
    /\ UNCHANGED <<op, args, R_arr, r_arr, i, j, shapes, shapes_arr, k, screen,
                   result, err, errAt, ctorCalls>>

\* lines 129-133: screen = shape.trace(screen=screen, ...); the collaborator
\* hands back an opaque drawing-surface handle
AnimateTrace ==
    /\ pc = "an_trace"
    /\ \E h \in Handles :
        /\ log' = Append(log, Ev("trace", screen, h, shapes_arr[k], screen_size, screen_color, 0))
        /\ screen' = h
    /\ pc' = "an_sleep"
    /\ UNCHANGED <<op, args, R_arr, r_arr, i, j, shapes, shapes_arr, k,
                   result, err, errAt, ctorCalls>>

\* line 134: time.sleep(frame_pause), then the next shape
AnimateSleepBetween ==
    /\ pc = "an_sleep"
    /\ log' = IF k < Len(shapes_arr)
              THEN Append(log, Ev("sleep", 0, 0, NoModel, <<>>, "", args.frame_pause))
              ELSE log
    /\ k' = k + 1
    /\ pc' = "an_loop"
    /\ UNCHANGED <<op, args, R_arr, r_arr, i, j, shapes, shapes_arr, screen,
                   result, err, errAt, ctorCalls>>

AnimateSleep ==
    /\ pc = "an_sleep"
    /\ log' = Append(log, Ev("sleep", 0, 0, NoModel, <<>>, "", args.frame_pause))
    /\ k' = k + 1
    /\ pc' = "an_loop"
    /\ UNCHANGED <<op, args, R_arr, r_arr, i, j, shapes, shapes_arr, screen,
                   result, err, errAt, ctorCalls>>

\* lines 135-136: if exit_on_click: turtle.exitonclick(); the name turtle is
\* looked up in the module's globals; the function then falls off its end
AnimateExit ==
    /\ pc = "an_exit"
    /\ IF args.exit_on_click
       THEN IF "turtle" \in ModuleNames
            THEN /\ log' = Append(log, Ev("exitonclick", 0, 0, NoModel, <<>>, "", 0))
                 /\ result' = RetNone
                 /\ UNCHANGED <<err, errAt>>
            ELSE /\ err' = "NameError"
                 /\ errAt' = "animate"
                 /\ UNCHANGED <<log, result>>
       ELSE /\ result' = RetNone
            /\ UNCHANGED <<log, err, errAt>>
    /\ pc' = "done"
    /\ UNCHANGED <<op, args, R_arr, r_arr, i, j, shapes, shapes_arr, k, screen, ctorCalls>>

Next ==
    \/ CallInit
    \/ CallNCusps
    \/ CallCreateRange
    \/ CreateRangeStep
    \/ CreateRangeReturn
    \/ CallAnimate
    \/ AnimateLoopHead
    \/ AnimateTrace
    \/ AnimateSleep
    \/ AnimateExit

Spec == Init /\ [][Next]_vars

\* ================================================================ claims
\* what the caller supplied, read as sequences
GivenR == IF args.R.seq THEN args.R.vals ELSE <<args.R.val>>
Givenr == IF args.r.seq THEN args.r.vals ELSE <<args.r.val>>
FamilySize == Len(GivenR) * Len(Givenr)
BothSequences == args.R.seq /\ args.r.seq
TracePos == {p \in DOMAIN log : log[p].ev = "trace"}
\* the loop of animate has run to its end
LoopOver == pc = "an_exit" \/ (pc = "done" /\ errAt \in {"none", "animate"})

\* C1: create_range with both R and r given as sequences, of any lengths,
\* fails with ValueError raised by create_range itself, before a single
\* constructor call: no model is built and no list is returned.
C1_BothSequencesRejected ==
    (op \in {"create_range", "animate"} /\ BothSequences) =>
        /\ pc = "done"
        /\ err = "ValueError"
        /\ errAt = "create_range"
        /\ ctorCalls = 0
        /\ shapes = <<>>
        /\ shapes_arr = <<>>
        /\ result = Unset

C1_Witness ==
    /\ op = "create_range"
    /\ pc = "done"
    /\ args.R.seq /\ Len(args.R.vals) = 1
    /\ args.r.seq /\ Len(args.r.vals) = 3
    /\ err = "ValueError"

\* C2: a create_range call that returns hands back a list of exactly
\* len(R_seq) * len(r_seq) models, and the model at index i*len(r_seq)+j
\* (0-based) has R equal to the i-th given R and r equal to the j-th given r.
C2_RangeOrder ==
    (op = "create_range" /\ pc = "done" /\ err = "none") =>
        /\ ~BothSequences
        /\ result.kind = "list"
        /\ Len(result.list) = FamilySize
        /\ \A a \in DOMAIN GivenR, b \in DOMAIN Givenr :
              /\ result.list[(a - 1) * Len(Givenr) + b].R = GivenR[a]
              /\ result.list[(a - 1) * Len(Givenr) + b].r = Givenr[b]

C2_Witness ==
    /\ op = "create_range"
    /\ pc = "done"
    /\ ~args.R.seq /\ args.R.val = Num(2)
    /\ args.r.seq /\ args.r.vals = <<Num(1), Num(2), Num(2)>>
    /\ result.kind = "list"
    /\ Len(result.list) = 3

\* every model the program holds anywhere
AllModels ==
    {shapes[x] : x \in DOMAIN shapes} \cup {shapes_arr[x] : x \in DOMAIN shapes_arr}
    \cup {result.list[x] : x \in DOMAIN result.list}
    \cup (IF result.kind = "model" THEN {result.model} ELSE {})
    \cup {log[p].shape : p \in TracePos}

\* C3: every cycloid model, built by the constructor, by create_range or by
\* n_cusps, has its trace-point offset d equal to its rolling radius r.
C3_OffsetIsRollingRadius == \A m \in AllModels : m.d = m.r

C3_Witness ==
    /\ op = "init"
    /\ result.kind = "model"
    /\ result.model.R = Num(2)
    /\ result.model.r = Num(1)

\* C4: n_cusps(R, n) with n # 0 that returns, returns a model with the given
\* R, with r * n = R, and with the given theta domain and origin.
C4_CuspRadius ==
    (op = "n_cusps" /\ pc = "done" /\ args.n # 0 /\ err = "none") =>
        /\ result.kind = "model"
        /\ result.model.R = args.R.val
        /\ RatMulInt(result.model.r, args.n) = args.R.val
        /\ result.model.thetas =
              (IF IsNone(args.theta[1]) THEN <<Num(1), Num(2)>> ELSE args.theta[1][1])
        /\ result.model.origin = args.origin

C4_Witness ==
    /\ op = "n_cusps"
    /\ pc = "done"
    /\ args.R.val = Num(3)
    /\ args.n = 2
    /\ result.kind = "model"
    /\ result.model.r = <<3, 2>>
    /\ result.model.origin = <<1, -1>>

\* C5 as stated: n_cusps(R, 0) ends in a division by zero raised inside the
\* curve construction n_cusps delegates to, and no model is produced.
C5_Original ==
    (op = "n_cusps" /\ pc = "done" /\ args.n = 0) =>
        /\ err = "ZeroDivisionError"
        /\ errAt = "__init__"
        /\ ctorCalls = 1
        /\ result = Unset

\* C5 amended: n_cusps(R, 0) ends in a ZeroDivisionError raised by n_cusps'
\* own evaluation of R / n, before the constructor is called; no model.
C5_DivisionInNCusps ==
    (op = "n_cusps" /\ pc = "done" /\ args.n = 0) =>
        /\ err = "ZeroDivisionError"
        /\ errAt = "n_cusps"
        /\ ctorCalls = 0
        /\ result = Unset

C5_Witness ==
    /\ op = "n_cusps"
    /\ pc = "done"
    /\ args.n = 0
    /\ args.R.val = Num(2)
    /\ ~IsNone(args.theta[1]) /\ IsNone(args.theta[2]) /\ IsNone(args.theta[3])
    /\ err = "ZeroDivisionError"

\* C6: animate draws each model of the family exactly once, in R-major,
\* r-minor order; every draw is directly followed by one pause of
\* frame_pause, which is over before anything else happens, the last draw
\* included.
C6_DrawThenPause ==
    op = "animate" =>
        /\ \A p \in DOMAIN log :
              /\ log[p].ev = "trace" =>
                    /\ p < Len(log) =>
                          (log[p + 1].ev = "sleep" /\ log[p + 1].pause = args.frame_pause)
                    /\ p = Len(log) => pc = "an_sleep"
              /\ log[p].ev = "sleep" => (p > 1 /\ log[p - 1].ev = "trace")
        /\ \A p \in TracePos :
              LET q == Cardinality({x \in TracePos : x <= p})
                  a == ((q - 1) \div Len(Givenr)) + 1
                  b == ((q - 1) % Len(Givenr)) + 1
              IN  /\ q <= FamilySize
                  /\ log[p].shape.R = GivenR[a]
                  /\ log[p].shape.r = Givenr[b]
        /\ LoopOver => Cardinality(TracePos) = FamilySize

C6_Witness ==
    /\ op = "animate"
    /\ pc = "an_exit"
    /\ args.r.seq /\ args.r.vals = <<Num(1), Num(2), Num(2)>>
    /\ Cardinality(TracePos) = 3
    /\ log[Len(log)].ev = "sleep"
    /\ log[Len(log)].pause = 2

\* C7 as stated: animate returns the list of models create_range produced.
C7_Original ==
    (op = "animate" /\ pc = "done" /\ err = "none") =>
        (result.kind = "list" /\ result.list = shapes_arr)

\* C8 as stated: with exit_on_click the animation ends in exactly one
\* pause-until-click call after the last pause and then finishes normally;
\* without it that call is never made.
C8_Original ==
    (op = "animate" /\ pc = "done" /\ errAt \notin {"create_range", "__init__"}) =>
        IF args.exit_on_click
        THEN /\ err = "none"
             /\ Cardinality({p \in DOMAIN log : log[p].ev = "exitonclick"}) = 1
             /\ log[Len(log)].ev = "exitonclick"
        ELSE \A p \in DOMAIN log : log[p].ev # "exitonclick"

\* the construction of some model of the family fails
SomeConstructionFails ==
    \E a \in DOMAIN GivenR, b \in DOMAIN Givenr :
        ~CycloidInit(GivenR[a], Givenr[b], args.theta[1], args.theta[2],
                     args.theta[3], args.theta[4], args.origin).ok

\* C9: in animate no reset, draw or pause happens before create_range has
\* built the whole family, and when create_range fails (two varied inputs,
\* or the construction of any model) none ever happens and nothing is
\* returned.
C9_BuildBeforeRender ==
    op = "animate" =>
        /\ log # <<>> =>
              /\ pc # "cr_loop"
              /\ Len(shapes_arr) = FamilySize
              /\ ctorCalls = FamilySize
              /\ ~BothSequences
              /\ ~SomeConstructionFails
        /\ (BothSequences \/ SomeConstructionFails) =>
              /\ log = <<>>
              /\ shapes_arr = <<>>
              /\ result = Unset
              /\ pc \in {"cr_loop", "done"}

C9_Witness ==
    /\ op = "animate"
    /\ pc = "done"
    /\ args.r.seq /\ args.r.vals = <<Num(1), Num(2), Num(0)>>
    /\ ctorCalls = 3
    /\ err = "DegenerateParameterError"
    /\ log = <<>>

\* C10: each draw is handed the handle the previous draw returned (the
\* caller's screen for the first), and a draw is preceded by one reset
\* (clear, setup to screen_size, bgcolor to screen_color, on that handle)
\* exactly when the handle it is handed is present.
C10_ResetWhenHandlePresent ==
    op = "animate" =>
        /\ \A p \in TracePos :
              LET before == {x \in TracePos : x < p} IN
              /\ log[p].h = IF before = {} THEN args.screen
                            ELSE log[CHOOSE x \in before : \A y \in before : y <= x].hout
              /\ log[p].hout # 0
              /\ IF log[p].h # 0
                 THEN /\ p >= 4
                      /\ log[p - 3].ev = "clear" /\ log[p - 3].h = log[p].h
                      /\ log[p - 2].ev = "setup" /\ log[p - 2].h = log[p].h
                      /\ log[p - 2].size = screen_size
                      /\ log[p - 1].ev = "bgcolor" /\ log[p - 1].h = log[p].h
                      /\ log[p - 1].color = screen_color
                      /\ (p > 4 => log[p - 4].ev = "sleep")
                 ELSE p = 1 \/ log[p - 1].ev = "sleep"
        /\ \A p \in DOMAIN log :
              log[p].ev = "clear" =>
                  /\ log[p].h # 0
                  /\ p + 2 <= Len(log)
                  /\ IF p + 2 = Len(log) THEN pc = "an_trace" ELSE log[p + 3].ev = "trace"

C10_Witness ==
    /\ op = "animate"
    /\ pc = "an_exit"
    /\ args.screen = 0
    /\ Cardinality(TracePos) = 3
    /\ log[1].ev = "trace"
    /\ Cardinality({p \in DOMAIN log : log[p].ev = "clear"}) = 2
    /\ \E p \in TracePos : log[p].h = 1 /\ log[p].hout = 2

====
